---- MODULE Spec2Model ----
(***************************************************************************)
(* Daily Rhythm (src/app/src/app/page.tsx): the task store, the scheduling *)
(* tick, the alert list and the load / seed / persist effects of Home().   *)
(*                                                                         *)
(* Dates are <<year, month, day>> and clock times <<hours, minutes>>, the   *)
(* parts split() yields, with <<>> for the empty string. Every date of the *)
(* model lies in one month, and instants are milliseconds since local      *)
(* midnight of its first day.                                              *)
(***************************************************************************)
EXTENDS Integers, Sequences, FiniteSets, TLC

VARIABLES
  tasks,                   \* useState<Task[]>            (line 108)
  alerts,                  \* useState<Alert[]>           (line 109)
  isHydrated,              \* useState(false)             (line 121)
  hasInitialisedTemplate,  \* useRef(false), the latch    (line 124)
  storage,                 \* localStorage[STORAGE_KEY]
  clock,                   \* the wall clock read by new Date()
  nextId,                  \* next value createId() hands to a task
  nextAlertId,             \* next value createId() hands to an alert
  budget,                  \* budgeted operations the environment has used
  seedCount,               \* times ensureTemplate inserted the template in this process
  last                     \* the step just taken (history, read by the properties)

vars == <<tasks, alerts, isHydrated, hasInitialisedTemplate, storage, clock,
          nextId, nextAlertId, budget, seedCount, last>>

----------------------------------------------------------------------------
(* Bounds of the model *)

\* budgeted operations per run: create, update, setCompleted,
\* bulkReplaceForDate, acknowledge, remove and restart; ticks are not counted,
\* nor are removals of the first task that precede every counted operation
MaxOps == 1
\* task ids createId() may hand out
MaxId == 11
\* an edit addresses one of the first MaxTargets tasks of the list
MaxTargets == 1

----------------------------------------------------------------------------
(* Time utilities *)

MsPerMinute == 60000
MsPerHour == 60 * MsPerMinute
MsPerDay == 24 * 60 * 60 * 1000

EmptyTime == <<>>
EmptyDate == <<>>

HM(h, m) == <<h, m>>
YMD(day) == <<2024, 1, day>>

\* line 68: const [hours = "00", minutes = "00"] = time.split(":"); Number("") is 0
Hours(time) == IF Len(time) >= 1 THEN time[1] ELSE 0
Minutes(time) == IF Len(time) >= 2 THEN time[2] ELSE 0

\* line 69: const [year, month, day] = date.split("-").map(Number); day ?? 1
Day(date) == IF Len(date) >= 3 THEN date[3] ELSE 1

\* new Date(year, month - 1, day, hours, minutes, 0, 0).getTime()
combineDateTime(date, time) ==
  (Day(date) - 1) * MsPerDay + Hours(time) * MsPerHour + Minutes(time) * MsPerMinute

\* formatDateInput(new Date(ms)): the calendar day an instant falls on
formatDateInput(ms) == YMD((ms \div MsPerDay) + 1)

\* normalizeTimeValue: "" stays "", otherwise both parts are padded to 2 digits
normalizeTimeValue(value) ==
  IF value = EmptyTime THEN EmptyTime ELSE HM(Hours(value), Minutes(value))

Instant(task) == combineDateTime(task.date, task.time)

\* line 274
TriggerTime(task) == Instant(task) - task.remindBefore * MsPerMinute

----------------------------------------------------------------------------
(* sortTasks: Array.prototype.sort with a numeric comparator, which is stable *)

RECURSIVE InsertStable(_, _)
InsertStable(sorted, x) ==
  IF sorted = <<>> THEN <<x>>
  ELSE IF Instant(sorted[Len(sorted)]) <= Instant(x)
       THEN Append(sorted, x)
       ELSE Append(InsertStable(SubSeq(sorted, 1, Len(sorted) - 1), x),
                   sorted[Len(sorted)])

RECURSIVE SortFrom(_, _)
SortFrom(acc, rest) ==
  IF rest = <<>> THEN acc
  ELSE SortFrom(InsertStable(acc, Head(rest)), Tail(rest))

\* a sort that puts a later element before the earlier ones it ties with
RECURSIVE InsertUnstable(_, _)
InsertUnstable(sorted, x) ==
  IF sorted = <<>> THEN <<x>>
  ELSE IF Instant(sorted[Len(sorted)]) < Instant(x)
       THEN Append(sorted, x)
       ELSE Append(InsertUnstable(SubSeq(sorted, 1, Len(sorted) - 1), x),
                   sorted[Len(sorted)])

RECURSIVE SortFromUnstable(_, _)
SortFromUnstable(acc, rest) ==
  IF rest = <<>> THEN acc
  ELSE SortFromUnstable(InsertUnstable(acc, Head(rest)), Tail(rest))

sortTasksUnstable(data) == SortFromUnstable(<<>>, data)

sortTasks(data) == SortFrom(<<>>, data)

Range(s) == {s[i] : i \in 1..Len(s)}
TaskIds(ts) == {ts[i].id : i \in 1..Len(ts)}

----------------------------------------------------------------------------
(* Data *)

\* templateBlueprint (lines 25-56)
templateBlueprint ==
  << [title |-> "Morning Stretch", description |-> "Loosen up",
      time |-> HM(7, 0), remindBefore |-> 10],
     [title |-> "Focus Block #1", description |-> "Deep work",
      time |-> HM(9, 0), remindBefore |-> 15],
     [title |-> "Lunch Break", description |-> "Step away",
      time |-> HM(12, 30), remindBefore |-> 10],
     [title |-> "Afternoon Check-in", description |-> "Review progress",
      time |-> HM(15, 0), remindBefore |-> 10],
     [title |-> "Wrap-up & Plan Tomorrow", description |-> "Log wins",
      time |-> HM(18, 0), remindBefore |-> 15] >>

TemplateSize == Len(templateBlueprint)

\* type Task (lines 5-14)
Task(id, title, description, date, time, remindBefore, completed, notified) ==
  [id |-> id, title |-> title, description |-> description, date |-> date,
   time |-> time, remindBefore |-> remindBefore, completed |-> completed,
   notified |-> notified]

\* templateBlueprint.map(...) of ensureTemplate and resetTemplateForDay: fresh
\* ids firstId, firstId + 1, ..., every task Pending
Blueprint(date, firstId) ==
  [i \in 1..TemplateSize |->
     Task(firstId + i - 1, templateBlueprint[i].title,
          templateBlueprint[i].description, date, templateBlueprint[i].time,
          templateBlueprint[i].remindBefore, FALSE, FALSE)]

\* a writer that leaves the notified flag out of the record
StringifyUnnotified(ts) ==
  [i \in 1..Len(ts) |->
     <<ts[i].id, ts[i].title, ts[i].description, ts[i].date, ts[i].time,
       ts[i].remindBefore, ts[i].completed, FALSE>>]

\* JSON.stringify(tasks): one field list per task, in collection order
Stringify(ts) ==
  [i \in 1..Len(ts) |->
     <<ts[i].id, ts[i].title, ts[i].description, ts[i].date, ts[i].time,
       ts[i].remindBefore, ts[i].completed, ts[i].notified>>]

\* a reader that takes every task as new: the two flags are not read back
ParseFresh(rec) ==
  [i \in 1..Len(rec) |->
     Task(rec[i][1], rec[i][2], rec[i][3], rec[i][4], rec[i][5], rec[i][6],
          FALSE, FALSE)]

\* JSON.parse(stored) of a record Stringify wrote
Parse(rec) ==
  [i \in 1..Len(rec) |->
     Task(rec[i][1], rec[i][2], rec[i][3], rec[i][4], rec[i][5], rec[i][6],
          rec[i][7], rec[i][8])]

\* localStorage.getItem(STORAGE_KEY): null, text JSON.parse rejects (here a
\* record cut off after its first task, data being what is left of it), or a
\* record
NoRecord == [kind |-> "none", data |-> <<>>]
CorruptRecord ==
  [kind |-> "corrupt",
   data |-> Stringify(<<Task(MaxId + 1, "Walk", "", YMD(1), HM(9, 0), 0, FALSE, FALSE)>>)]
Record(ts) == [kind |-> "json", data |-> Stringify(ts)]

----------------------------------------------------------------------------
(* Alert channel *)

\* type Alert (lines 16-21); the message is built from the title, the start
\* time and the lead time, all fixed when the alert is created
Alert(id, task) ==
  [id |-> id, taskId |-> task.id,
   message |-> <<task.title, task.time, task.remindBefore>>,
   scheduledAt |-> Instant(task)]

\* a chime without the try/catch, run to its end by the caller: the exception
\* of the audio calls reaches triggerNotification
playToneUncaught(outcome) ==
  [threw |-> (outcome = "throws"), logged |-> FALSE]

\* playTone (lines 130-161) as its caller sees it. outcome: what the audio
\* calls inside the try do, "plays" or "throws"; the catch logs the exception
\* and nothing leaves the function
playTone(outcome) ==
  [threw |-> FALSE, logged |-> (outcome = "throws")]

\* emit without the taskId check of line 171
triggerNotificationNoDedup(current, task, id) == Append(current, Alert(id, task))

\* the check compares the alert's own id, not its taskId
triggerNotificationWrongKey(current, task, id) ==
  IF \E i \in 1..Len(current) : current[i].id = task.id
  THEN current
  ELSE Append(current, Alert(id, task))

\* the setAlerts updater of triggerNotification (lines 170-183)
triggerNotification(current, task, id) ==
  IF \E i \in 1..Len(current) : current[i].taskId = task.id
  THEN current
  ELSE Append(current, Alert(id, task))

\* dismissing one alert clears the whole list
acknowledgeAlertAll(current, alertId) ==
  IF \E i \in 1..Len(current) : current[i].id = alertId THEN <<>> ELSE current

\* acknowledgeAlert (lines 356-358)
acknowledgeAlert(current, alertId) ==
  SelectSeq(current, LAMBDA item : item.id # alertId)

AlertsFor(as, taskId) == {i \in 1..Len(as) : as[i].taskId = taskId}

----------------------------------------------------------------------------
(* Scheduling tick (lines 262-287) *)

\* fires whatever the completed flag says
QualifiesIgnoringCompleted(task, nowTime) ==
  ~task.notified /\ nowTime >= TriggerTime(task)

\* fires whatever the notified flag says
QualifiesIgnoringNotified(task, nowTime) ==
  ~task.completed /\ nowTime >= TriggerTime(task)

\* compares against the start instant plus, not minus, the lead time's worth
QualifiesEarly(task, nowTime) ==
  ~(task.completed \/ task.notified)
  /\ nowTime >= Instant(task) - 2 * task.remindBefore * MsPerMinute

\* strict comparison: misses the tick that lands on the trigger instant
QualifiesLate(task, nowTime) ==
  ~(task.completed \/ task.notified) /\ nowTime > TriggerTime(task)

\* lines 269-276: skip completed or notified tasks, fire when now >= trigger
Qualifies(task, nowTime) ==
  ~(task.completed \/ task.notified) /\ nowTime >= TriggerTime(task)

\* the ids of the tasks the pass calls triggerNotification for
Fired(current, nowTime) ==
  {current[i].id : i \in {j \in 1..Len(current) : Qualifies(current[j], nowTime)}}

\* an updater that always hands back a new array, sortTasks(next)
TouchedAlways(current, nowTime) == TRUE

\* the touched flag (lines 266, 277, 285): the updater hands back a new array,
\* and so a render with its persist effect follows, only when a task fired
Touched(current, nowTime) ==
  \E i \in 1..Len(current) : Qualifies(current[i], nowTime)

\* the setTasks updater: next = current.map(...); touched ? sortTasks(next) : current
TickTasks(current, nowTime) ==
  LET next == [i \in 1..Len(current) |->
                 IF Qualifies(current[i], nowTime)
                 THEN [current[i] EXCEPT !.notified = TRUE]
                 ELSE current[i]]
      touched == \E i \in 1..Len(current) : Qualifies(current[i], nowTime)
  IN IF touched THEN sortTasks(next) ELSE current

\* the triggerNotification calls of one pass, in collection order; each
\* inserted alert takes the next fresh id (idBase + the length of the list it
\* joins)
RECURSIVE TickAlerts(_, _, _, _)
TickAlerts(as, rest, nowTime, idBase) ==
  IF rest = <<>> THEN as
  ELSE IF Qualifies(Head(rest), nowTime)
       THEN TickAlerts(triggerNotification(as, Head(rest), idBase + Len(as)),
                       Tail(rest), nowTime, idBase)
       ELSE TickAlerts(as, Tail(rest), nowTime, idBase)

\* the chime sits inside the setAlerts updater, after its taskId check: a
\* suppressed insertion requests no chime
triggerEffectsDeduped(current, task, permission) ==
  [os |-> IF permission = "granted" THEN 1 ELSE 0,
   chime |-> IF \E i \in 1..Len(current) : current[i].taskId = task.id
             THEN 0 ELSE 1]

\* the chime sits behind the permission test: without a granted permission
\* triggerNotification returns before playTone
triggerEffectsGated(current, task, permission) ==
  [os |-> IF permission = "granted" THEN 1 ELSE 0,
   chime |-> IF permission = "granted" THEN 1 ELSE 0]

\* what triggerNotification(task) requests besides the alert (lines 185-194):
\* new Notification(...) when the capability is there and the permission is
\* granted, and playTone() in every case. current: the live alerts
triggerEffects(current, task, permission) ==
  [os |-> IF permission = "granted" THEN 1 ELSE 0, chime |-> 1]

\* the OS notifications and chimes one pass requests
RECURSIVE TickRequests(_, _, _, _)
TickRequests(as, rest, nowTime, permission) ==
  IF rest = <<>> THEN [os |-> 0, chime |-> 0]
  ELSE LET more == TickRequests(as, Tail(rest), nowTime, permission)
           this == triggerEffects(as, Head(rest), permission)
       IN IF Qualifies(Head(rest), nowTime)
          THEN [os |-> this.os + more.os, chime |-> this.chime + more.chime]
          ELSE more

----------------------------------------------------------------------------
(* Task store handlers *)

\* a completion toggle that also re-arms the task, { ...task, completed,
\* notified: false }
handleTaskCompletionRearm(prev, taskId, completed) ==
  sortTasks([i \in 1..Len(prev) |->
               IF prev[i].id = taskId
               THEN [prev[i] EXCEPT !.completed = completed, !.notified = FALSE]
               ELSE prev[i]])

\* handleTaskCompletion (lines 360-373)
handleTaskCompletion(prev, taskId, completed) ==
  sortTasks([i \in 1..Len(prev) |->
               IF prev[i].id = taskId
               THEN [prev[i] EXCEPT !.completed = completed]
               ELSE prev[i]])

\* removal by position, prev.splice(prev.findIndex(...), 1): an id that is not
\* found gives position -1, and splice(-1, 1) takes out the last task
handleTaskRemovalSplice(prev, taskId) ==
  IF \E i \in 1..Len(prev) : prev[i].id = taskId
  THEN SelectSeq(prev, LAMBDA task : task.id # taskId)
  ELSE SubSeq(prev, 1, Len(prev) - 1)

\* handleTaskRemoval (lines 375-377): filter, no sort
handleTaskRemoval(prev, taskId) ==
  SelectSeq(prev, LAMBDA task : task.id # taskId)

\* handleFormSubmit (lines 379-397): nothing happens without title, date and time
handleFormSubmit(prev, form, id) ==
  IF form.title = "" \/ form.date = EmptyDate \/ form.time = EmptyTime
  THEN prev
  ELSE sortTasks(Append(prev, Task(id, form.title, form.description, form.date,
                                   normalizeTimeValue(form.time),
                                   form.remindBefore, FALSE, FALSE)))

\* updates is a function from the supplied field names to their values.
\* updates.time || updates.date (line 414): a field counts when it is supplied
\* and truthy; the empty time "" is falsy, a date is a non-empty string
Supplied(updates, f) == f \in DOMAIN updates
Truthy(updates, f) ==
  Supplied(updates, f) /\ (f = "time" => updates[f] # EmptyTime)

\* a merge that re-arms on a change of the lead time as well
MergeRearmOnLeadTime(task, updates) ==
  [f \in DOMAIN task |->
     IF f = "notified"
     THEN IF \/ Truthy(updates, "time")
             \/ Truthy(updates, "date")
             \/ Supplied(updates, "remindBefore")
          THEN FALSE
          ELSE task.notified
     ELSE IF Supplied(updates, f) THEN updates[f] ELSE task[f]]

\* the spread alone, { ...task, ...updates }, without the notified override
MergeSpread(task, updates) ==
  [f \in DOMAIN task |-> IF Supplied(updates, f) THEN updates[f] ELSE task[f]]

\* { ...task, ...updates, notified: ... } (lines 411-415)
Merge(task, updates) ==
  [f \in DOMAIN task |->
     IF f = "notified"
     THEN IF Truthy(updates, "time") \/ Truthy(updates, "date")
          THEN FALSE ELSE task.notified
     ELSE IF Supplied(updates, f) THEN updates[f] ELSE task[f]]

\* handleTaskUpdate (lines 406-420)
handleTaskUpdate(prev, taskId, updates) ==
  sortTasks([i \in 1..Len(prev) |->
               IF prev[i].id = taskId THEN Merge(prev[i], updates) ELSE prev[i]])

\* a merge: the template is added and the tasks of that date are kept
resetTemplateForDayMerge(prev, date, firstId) ==
  sortTasks(prev \o Blueprint(date, firstId))

\* resetTemplateForDay (lines 338-354)
resetTemplateForDay(prev, date, firstId) ==
  sortTasks(SelectSeq(prev, LAMBDA task : task.date # date)
            \o Blueprint(date, firstId))

\* seeds whatever the latch says
ensureTemplateNoLatch(current, latch, targetDate, firstId) ==
  sortTasks(Blueprint(targetDate, firstId))

\* the latch test inverted
ensureTemplateInverted(current, latch, targetDate, firstId) ==
  IF ~latch THEN current ELSE sortTasks(Blueprint(targetDate, firstId))

\* ensureTemplate (lines 199-216): the tasks it leaves in the store
ensureTemplate(current, latch, targetDate, firstId) ==
  IF latch THEN current ELSE sortTasks(Blueprint(targetDate, firstId))

----------------------------------------------------------------------------
(* Inputs the environment may hand in *)

At(day, h, m) == combineDateTime(YMD(day), HM(h, m))

\* the instants the clock is read at: 1 ms before and exactly at the first
\* template trigger (06:50), after the last one, and the evening of the next day
ClockSamples == {At(1, 6, 50) - 1, At(1, 6, 50), At(1, 18, 0), At(2, 18, 0)}

StartClock == At(1, 6, 50) - 1

FormInputs ==
  { [title |-> "Walk", description |-> "", date |-> YMD(1), time |-> HM(7, 0),
     remindBefore |-> 10],
    [title |-> "Walk", description |-> "", date |-> YMD(1), time |-> HM(6, 0),
     remindBefore |-> 0],
    [title |-> "Walk", description |-> "", date |-> YMD(1), time |-> EmptyTime,
     remindBefore |-> 15],
    [title |-> "", description |-> "", date |-> YMD(1), time |-> HM(7, 0),
     remindBefore |-> 15] }

\* the calls the page makes (lines 616-620, 632, 649-652) and the plain ones
UpdateInputs(nowMs) ==
  { [description |-> "edited"],
    [time |-> normalizeTimeValue(HM(9, 0)), notified |-> FALSE],
    [time |-> normalizeTimeValue(EmptyTime), notified |-> FALSE],
    [date |-> formatDateInput(nowMs + MsPerDay), notified |-> FALSE,
     completed |-> FALSE],
    [remindBefore |-> 0, notified |-> FALSE],
    [notified |-> TRUE] }

\* what new AudioContext(), resume() and the oscillator calls do in a tick
ChimeOutcomes == {"plays", "throws"}

\* playTone is called only for a task that fires
ChimeInputs(ts, n) == IF Fired(ts, n) = {} THEN {"silent"} ELSE ChimeOutcomes

\* Notification.permission, or "absent" when window has no Notification
Permissions == {"granted", "denied", "default", "absent"}

\* the permission is read only for a task that fires; every value is tried for
\* the ticks that precede the counted operations, later ticks find "default"
PermissionInputs(ts, n) ==
  IF Fired(ts, n) = {} \/ budget > 0 THEN {"default"} ELSE Permissions

\* an id createId() never hands out
UnknownId == MaxId + MaxId

Min(a, b) == IF a <= b THEN a ELSE b

\* the user edits a task near the head of the list or names an unknown id
EditTargets(ts) == {ts[i].id : i \in 1..Min(Len(ts), MaxTargets)} \cup {UnknownId}

\* the user removes the first task of the list or names an unknown id
RemoveTargets(ts) == {ts[i].id : i \in 1..Min(Len(ts), 1)} \cup {UnknownId}

\* the user acknowledges the oldest alert or names an unknown id
AckTargets(as) == {as[i].id : i \in 1..Min(Len(as), 1)} \cup {UnknownId}

\* a record an earlier run of the program wrote: task 1 was created for 09:00,
\* then task 2 for 07:00 and task 3 for the next day; task 2 has fired and
\* task 3 was marked completed
StoredSample ==
  << Task(2, "Read", "", YMD(1), HM(7, 0), 10, FALSE, TRUE),
     Task(1, "Walk", "", YMD(1), HM(9, 0), 0, FALSE, FALSE),
     Task(3, "Plan", "", YMD(2), HM(9, 0), 0, TRUE, FALSE) >>

----------------------------------------------------------------------------
(* State machine *)

NoUpdates == <<>>

\* hydration that gets ahead of the parsed tasks: the first hydrated render
\* still holds the empty collection of useState([])
loadEffectHydratesFirst(stored, latch) ==
  IF stored.kind = "json"
  THEN [tasks |-> <<>>, latch |-> TRUE, storage |-> stored]
  ELSE [tasks |-> <<>>, latch |-> latch,
        storage |-> IF stored.kind = "corrupt" THEN NoRecord ELSE stored]

\* a reader that salvages what it can of a record JSON.parse rejects and
\* leaves the record where it is
loadEffectLenient(stored, latch) ==
  IF stored.kind = "none"
  THEN [tasks |-> <<>>, latch |-> latch, storage |-> stored]
  ELSE [tasks |-> sortTasks(Parse(stored.data)), latch |-> TRUE, storage |-> stored]

\* the load effect up to setIsHydrated (lines 223-234): the collection it hands
\* to saveTasks, the latch and the record it leaves. No record: nothing is
\* done; JSON.parse throws: the catch removes the record, line 231 is not
\* reached; otherwise the parsed tasks are saved and the latch is set
loadEffect(stored, latch) ==
  CASE stored.kind = "none" ->
         [tasks |-> <<>>, latch |-> latch, storage |-> stored]
    [] stored.kind = "corrupt" ->
         [tasks |-> <<>>, latch |-> latch, storage |-> NoRecord]
    [] stored.kind = "json" ->
         [tasks |-> sortTasks(Parse(stored.data)), latch |-> TRUE, storage |-> stored]

\* the collection a step starts from: the parsed record for the load
BeforeStep ==
  IF ~isHydrated /\ storage.kind = "json" THEN Parse(storage.data) ELSE tasks

\* again: a tick that directly follows a tick; before: the collection the
\* process held when the page was closed; loaded: the tasks the load brought in
\* with notified = true whose date and time no update has touched since;
\* removed: the load effect took the record out of localStorage
Step(op, id, updates, fired, seeded, wrote) ==
  [op |-> op, id |-> id, u |-> updates, fired |-> fired, seeded |-> seeded,
   wrote |-> wrote, again |-> (op = "tick" /\ last.op = "tick"),
   removed |-> (op = "load" /\ storage # NoRecord
                /\ loadEffect(storage, hasInitialisedTemplate).storage = NoRecord),
   before |-> IF op = "restart" THEN tasks ELSE <<>>,
   loaded |-> CASE op = "load" ->
                     {BeforeStep[i].id : i \in {j \in 1..Len(BeforeStep) : BeforeStep[j].notified}}
                [] op = "restart" -> {}
                [] op = "update" /\ ("date" \in DOMAIN updates \/ "time" \in DOMAIN updates) ->
                     last.loaded \ {id}
                [] OTHER -> last.loaded]

Init ==
  /\ tasks = <<>>
  /\ alerts = <<>>
  /\ isHydrated = FALSE
  /\ hasInitialisedTemplate = FALSE
  /\ storage \in {NoRecord, CorruptRecord, Record(StoredSample)}
  /\ clock = StartClock
  /\ nextId = IF storage.kind = "json" THEN Len(storage.data) + 1 ELSE 1
  /\ nextAlertId = 1
  /\ budget = 0
  /\ seedCount = 0
  /\ last = [op |-> "init", id |-> UnknownId, u |-> NoUpdates, fired |-> {},
             seeded |-> FALSE, wrote |-> FALSE, again |-> FALSE, removed |-> FALSE,
             before |-> <<>>,
             loaded |-> {}]

\* an effect that depends on tasks.length: a change that keeps the length is
\* not written
persistOnLengthChange(prev, ts, stored) ==
  IF Len(ts) # Len(prev) THEN Record(ts) ELSE stored

\* the persist effect (lines 254-257) of a hydrated render whose tasks are ts;
\* prev: the tasks of the render before, stored: the record it replaces
persist(prev, ts, stored) == Record(ts)

\* The render that follows setTasks(t1) and its effects: the seed effect
\* (lines 242-252) runs when isHydrated or tasks.length changed and finds the
\* list empty; the persist effect (lines 254-257) then writes the snapshot.
\* idsUsed: the ids the handler itself drew from createId().
Commit(op, id, updates, fired, t1, latch1, idsUsed, hydrated) ==
  LET seedRuns == (hydrated \/ Len(t1) # Len(tasks)) /\ Len(t1) = 0
      t2 == IF seedRuns
            THEN ensureTemplate(t1, latch1, formatDateInput(clock'), nextId + idsUsed)
            ELSE t1
      seeded == t2 # t1
  IN /\ tasks' = t2
     /\ hasInitialisedTemplate' = (latch1 \/ seedRuns)
     /\ nextId' = nextId + idsUsed + (IF seeded THEN TemplateSize ELSE 0)
     /\ seedCount' = seedCount + (IF seeded THEN 1 ELSE 0)
     /\ storage' = persist(tasks, t2, storage)
     /\ last' = Step(op, id, updates, fired, seeded, TRUE)

\* the load effect (lines 218-240) and the first hydrated render
Load ==
  /\ ~isHydrated
  /\ isHydrated' = TRUE
  /\ UNCHANGED <<alerts, clock, nextAlertId, budget>>
  /\ LET loaded == loadEffect(storage, hasInitialisedTemplate)
     IN Commit("load", UnknownId, NoUpdates, {}, loaded.tasks, loaded.latch, 0, TRUE)

\* the interval callback (lines 262-287) at clock reading n; chime: what audio
\* playback does when triggerNotification calls playTone (line 194);
\* permission: what line 186 reads. An exception that left
\* triggerNotification would leave the setTasks updater too, and the tick
\* would change nothing. The step records its inputs and the side effects it
\* requested
Tick(n, chime, permission) ==
  /\ isHydrated
  /\ n >= clock
  /\ clock' = n
  /\ UNCHANGED <<isHydrated, budget>>
  /\ IF Touched(tasks, n) /\ ~playTone(chime).threw
     THEN /\ alerts' = TickAlerts(alerts, tasks, n, nextAlertId - Len(alerts))
          /\ nextAlertId' = nextAlertId + Len(alerts') - Len(alerts)
          /\ Commit("tick", UnknownId,
                    [chime |-> chime, permission |-> permission,
                     requested |-> TickRequests(alerts, tasks, n, permission)],
                    Fired(tasks, n), TickTasks(tasks, n), hasInitialisedTemplate,
                    0, FALSE)
     ELSE /\ alerts' = alerts
          /\ tasks' = IF Fired(tasks, n) = {} THEN TickTasks(tasks, n) ELSE tasks
          /\ last' = Step("tick", UnknownId, NoUpdates, {}, FALSE, FALSE)
          /\ UNCHANGED <<hasInitialisedTemplate, nextId, nextAlertId, seedCount,
                         storage>>

Budgeted == budget < MaxOps /\ budget' = budget + 1

Edit == /\ isHydrated
        /\ Budgeted
        /\ UNCHANGED <<alerts, isHydrated, clock, nextAlertId>>

\* handleFormSubmit: create
Create(form) ==
  /\ Edit
  /\ nextId <= MaxId
  /\ IF form.title = "" \/ form.date = EmptyDate \/ form.time = EmptyTime
     THEN /\ last' = Step("create", UnknownId, NoUpdates, {}, FALSE, FALSE)
          /\ UNCHANGED <<tasks, hasInitialisedTemplate, nextId, seedCount, storage>>
     ELSE Commit("create", nextId, NoUpdates, {},
                 handleFormSubmit(tasks, form, nextId), hasInitialisedTemplate,
                 1, FALSE)

\* handleTaskUpdate: update
Update(id, updates) ==
  /\ Edit
  /\ Commit("update", id, updates, {}, handleTaskUpdate(tasks, id, updates),
            hasInitialisedTemplate, 0, FALSE)

\* handleTaskCompletion: setCompleted
SetCompleted(id, completed) ==
  /\ Edit
  /\ Commit("setCompleted", id, [completed |-> completed], {},
            handleTaskCompletion(tasks, id, completed), hasInitialisedTemplate,
            0, FALSE)

\* resetTemplateForDay: bulkReplaceForDate
BulkReplace(date) ==
  /\ Edit
  /\ nextId + TemplateSize - 1 <= MaxId
  /\ Commit("bulkReplace", UnknownId, [date |-> date], {},
            resetTemplateForDay(tasks, date, nextId), hasInitialisedTemplate,
            TemplateSize, FALSE)

\* handleTaskRemoval: remove
Remove(id) ==
  /\ isHydrated
  /\ IF id \in TaskIds(tasks) /\ budget = 0 THEN UNCHANGED budget ELSE Budgeted
  /\ UNCHANGED <<alerts, isHydrated, clock, nextAlertId>>
  /\ Commit("remove", id, NoUpdates, {}, handleTaskRemoval(tasks, id),
            hasInitialisedTemplate, 0, FALSE)

\* acknowledgeAlert: acknowledge
Acknowledge(alertId) ==
  /\ isHydrated
  /\ Budgeted
  /\ UNCHANGED <<tasks, isHydrated, hasInitialisedTemplate, storage, clock,
                 nextId, nextAlertId, seedCount>>
  /\ alerts' = acknowledgeAlert(alerts, alertId)
  /\ last' = Step("acknowledge", alertId, NoUpdates, {}, FALSE, FALSE)

\* the page is closed and opened again: in-memory state is rebuilt by
\* Home() (lines 108-124), localStorage is kept
Restart ==
  /\ isHydrated
  /\ Budgeted
  /\ tasks' = <<>>
  /\ alerts' = <<>>
  /\ isHydrated' = FALSE
  /\ hasInitialisedTemplate' = FALSE
  /\ seedCount' = 0
  /\ UNCHANGED <<storage, clock, nextId, nextAlertId>>
  /\ last' = Step("restart", UnknownId, NoUpdates, {}, FALSE, FALSE)

\* a setCompleted whose snapshot write throws: localStorage.setItem (line 256)
\* stands in the persist effect without a try, so the exception leaves the
\* effect, React unmounts the tree of Home and with it tasks, alerts, the
\* latch and the interval; localStorage keeps the record of the write before.
\* What can follow is the load of a page opened anew. before: the collection
\* the setTasks updater had produced
SetCompletedWriteThrows(id, completed) ==
  /\ isHydrated
  /\ Budgeted
  /\ id \in TaskIds(tasks)
  /\ tasks' = <<>>
  /\ alerts' = <<>>
  /\ isHydrated' = FALSE
  /\ hasInitialisedTemplate' = FALSE
  /\ seedCount' = 0
  /\ UNCHANGED <<storage, clock, nextId, nextAlertId>>
  /\ last' = [Step("writeFailed", id, [completed |-> completed], {}, FALSE, FALSE)
                EXCEPT !.before = handleTaskCompletion(tasks, id, completed),
                       !.loaded = {}]

Next ==
  \/ Load
  \/ \E n \in ClockSamples :
       \E chime \in ChimeInputs(tasks, n), permission \in PermissionInputs(tasks, n) :
         Tick(n, chime, permission)
  \/ \E form \in FormInputs : Create(form)
  \/ \E id \in EditTargets(tasks), updates \in UpdateInputs(clock) : Update(id, updates)
  \/ \E id \in EditTargets(tasks), completed \in BOOLEAN : SetCompleted(id, completed)
  \/ \E date \in {YMD(1), YMD(2)} : BulkReplace(date)
  \/ \E id \in RemoveTargets(tasks) : Remove(id)
  \/ \E alertId \in AckTargets(alerts) : Acknowledge(alertId)
  \/ Restart
  \/ \E id \in EditTargets(tasks), completed \in BOOLEAN :
       SetCompletedWriteThrows(id, completed)

Spec == Init /\ [][Next]_vars

----------------------------------------------------------------------------
(* Properties *)

Pos(ts, id) == CHOOSE i \in 1..Len(ts) : ts[i].id = id
TaskById(ts, id) == ts[Pos(ts, id)]
Pending(task) == ~task.completed /\ ~task.notified
CountAlerts(as, taskId) == Cardinality(AlertsFor(as, taskId))

\* the alerts of as2 that as1 does not hold
NewAlerts(as1, as2) == {a \in Range(as2) : a \notin Range(as1)}

IsSorted(ts) == \A i, j \in 1..Len(ts) : i < j => Instant(ts[i]) <= Instant(ts[j])

\* C1: every task a tick moves from Pending to Alerted has exactly one alert
\* right after that tick, and a tick never changes a count of one
C1_ExactlyOneAlert ==
  [][last'.op = "tick" =>
       /\ \A id \in last'.fired :
            /\ Pending(TaskById(tasks, id))
            /\ TaskById(tasks', id).notified
            /\ CountAlerts(alerts', id) = 1
       /\ \A id \in TaskIds(tasks) :
            CountAlerts(alerts, id) = 1 => CountAlerts(alerts', id) = 1]_vars

\* a tick has fired a task while the alert of a task fired earlier is live
C1_Witness ==
  /\ last.op = "tick"
  /\ last.fired # {}
  /\ \A id \in last.fired : CountAlerts(alerts, id) = 1
  /\ \E id \in TaskIds(tasks) \ last.fired :
       TaskById(tasks, id).notified /\ CountAlerts(alerts, id) = 1

\* C2: the alert list never holds two alerts with the same taskId
C2_AtMostOneAlertPerTask ==
  \A i, j \in 1..Len(alerts) : alerts[i].taskId = alerts[j].taskId => i = j

\* a tick has fired a task that was re-armed while its alert was live: the
\* one alert it has is the earlier one, made for the old start instant
C2_Witness ==
  /\ last.op = "tick"
  /\ \E id \in last.fired :
       \E i \in AlertsFor(alerts, id) :
         alerts[i].scheduledAt # Instant(TaskById(tasks, id))

\* C3: a tick at clock reading now leaves alone every task with
\* now < combine(date, time) - remindBefore minutes
C3_NeverBeforeTrigger ==
  [][last'.op = "tick" =>
       \A i \in 1..Len(tasks) :
         clock' < TriggerTime(tasks[i]) =>
           /\ tasks[i].id \notin last'.fired
           /\ TaskById(tasks', tasks[i].id) = tasks[i]
           /\ \A a \in NewAlerts(alerts, alerts') : a.taskId # tasks[i].id]_vars

\* after a tick read the clock 1 ms before a task's trigger instant the task is
\* still Pending
C3_Witness ==
  /\ last.op = "tick"
  /\ \E i \in 1..Len(tasks) :
       /\ Pending(tasks[i])
       /\ clock = TriggerTime(tasks[i]) - 1

\* C4 as amended: a tick fires every Pending task whose trigger instant has
\* come; afterwards the task is notified and has exactly one alert, a new one
\* unless an alert for that task was already live
C4_FiresWhenDue ==
  [][last'.op = "tick" =>
       \A i \in 1..Len(tasks) :
         (Pending(tasks[i]) /\ clock' >= TriggerTime(tasks[i])) =>
           /\ tasks[i].id \in last'.fired
           /\ TaskById(tasks', tasks[i].id) = [tasks[i] EXCEPT !.notified = TRUE]
           /\ CountAlerts(alerts', tasks[i].id) = 1
           /\ CountAlerts(alerts, tasks[i].id) = 0 =>
                \E a \in NewAlerts(alerts, alerts') :
                  /\ a.taskId = tasks[i].id
                  /\ a.scheduledAt = Instant(tasks[i])]_vars

\* a tick that read the clock exactly at a trigger instant has fired the task
C4_Witness ==
  /\ last.op = "tick"
  /\ \E i \in 1..Len(tasks) :
       /\ tasks[i].id \in last.fired
       /\ clock = TriggerTime(tasks[i])
       /\ CountAlerts(alerts, tasks[i].id) = 1

\* C4 as claimed: every Pending task whose trigger instant has come gets an
\* alert added to the list by that tick
C4_AlertAlwaysAdded ==
  [][last'.op = "tick" =>
       \A i \in 1..Len(tasks) :
         (Pending(tasks[i]) /\ clock' >= TriggerTime(tasks[i])) =>
           \E a \in NewAlerts(alerts, alerts') : a.taskId = tasks[i].id]_vars

\* C5: a tick leaves a completed task as it is and emits no alert for it
C5_CompletedNeverFires ==
  [][last'.op = "tick" =>
       \A i \in 1..Len(tasks) :
         tasks[i].completed =>
           /\ tasks[i].id \notin last'.fired
           /\ TaskById(tasks', tasks[i].id) = tasks[i]
           /\ \A a \in NewAlerts(alerts, alerts') : a.taskId # tasks[i].id]_vars

\* a tick has run over a completed, unnotified task whose trigger instant has
\* passed
C5_Witness ==
  /\ last.op = "tick"
  /\ \E i \in 1..Len(tasks) :
       /\ tasks[i].completed
       /\ ~tasks[i].notified
       /\ clock >= TriggerTime(tasks[i])
       /\ CountAlerts(alerts, tasks[i].id) = 0

\* C6 as claimed: an update that supplies date or time leaves notified = false,
\* one that supplies only description leaves notified as it was
C6_UpdateRearms ==
  [][last'.op = "update" =>
       \A i \in 1..Len(tasks) :
         tasks[i].id = last'.id =>
           /\ (Supplied(last'.u, "date") \/ Supplied(last'.u, "time")) =>
                ~TaskById(tasks', last'.id).notified
           /\ DOMAIN last'.u = {"description"} =>
                TaskById(tasks', last'.id).notified = tasks[i].notified]_vars

\* C7 as amended: the second of two ticks in succession fires no task whose
\* trigger instant the first one had reached, and at the same clock reading it
\* fires nothing and leaves tasks and alerts as they are
C7_SecondTickIdle ==
  [][(last.op = "tick" /\ last'.op = "tick") =>
       /\ \A id \in last'.fired : TriggerTime(TaskById(tasks, id)) > clock
       /\ clock' = clock =>
            (last'.fired = {} /\ tasks' = tasks /\ alerts' = alerts)]_vars

\* a tick directly after a tick fired nothing although a notified task's trigger
\* instant lies in the past and its alert is live
C7_Witness ==
  /\ last.op = "tick"
  /\ last.again
  /\ last.fired = {}
  /\ \E i \in 1..Len(tasks) :
       /\ tasks[i].notified
       /\ ~tasks[i].completed
       /\ TriggerTime(tasks[i]) <= clock
       /\ CountAlerts(alerts, tasks[i].id) = 1

\* C7 as claimed: the second of two ticks in succession, at the same or a later
\* clock reading, emits no alert and leaves the tasks unchanged
C7_SecondTickAlwaysIdle ==
  [][(last.op = "tick" /\ last'.op = "tick") =>
       (tasks' = tasks /\ alerts' = alerts)]_vars

\* C8 as amended: after every step the tasks are in ascending order of their
\* start instant; two tasks with equal instants are in the order they had
\* before the step, a task the step inserted comes after the ones it found,
\* and tasks inserted together keep the order they were made in
C8_SortedAndStable ==
  [][/\ IsSorted(tasks')
     /\ \A i, j \in 1..Len(tasks') :
          (i < j /\ Instant(tasks'[i]) = Instant(tasks'[j])) =>
            LET a == tasks'[i].id
                b == tasks'[j].id
                old == TaskIds(BeforeStep)
            IN /\ (a \in old /\ b \in old) => Pos(BeforeStep, a) < Pos(BeforeStep, b)
               /\ b \in old => a \in old
               /\ (a \notin old /\ b \notin old) => a < b]_vars

\* an update has left two tasks with equal instants, the one made later first
C8_Witness ==
  /\ last.op = "update"
  /\ \E i, j \in 1..Len(tasks) :
       /\ i < j
       /\ Instant(tasks[i]) = Instant(tasks[j])
       /\ tasks[i].id > tasks[j].id

\* C8 as claimed: the tasks are in ascending order of their start instant and
\* tasks with equal instants are in the order they were inserted in (ids are
\* handed out in increasing order)
C8_SortedByInsertion ==
  /\ IsSorted(tasks)
  /\ \A i, j \in 1..Len(tasks) :
       (i < j /\ Instant(tasks[i]) = Instant(tasks[j])) => tasks[i].id < tasks[j].id

\* the five template tasks for date, Pending, with distinct ids
IsTemplateFor(ts, date) ==
  /\ Len(ts) = 5
  /\ \A i \in 1..Len(ts) :
       /\ ts[i].title = templateBlueprint[i].title
       /\ ts[i].description = templateBlueprint[i].description
       /\ ts[i].time = templateBlueprint[i].time
       /\ ts[i].remindBefore = templateBlueprint[i].remindBefore
       /\ ts[i].date = date
       /\ ~ts[i].completed
       /\ ~ts[i].notified
  /\ Cardinality(TaskIds(ts)) = 5

\* C9 as amended: when there is no stored record or the record is corrupt,
\* the load leaves the five template tasks for the current date; a stored empty
\* collection is loaded as it is
C9_SeededWhenNoRecord ==
  [][last'.op = "load" =>
       /\ storage.kind \in {"none", "corrupt"} =>
            (IsTemplateFor(tasks', formatDateInput(clock')) /\ last'.seeded)
       /\ (storage.kind = "json" /\ storage.data = <<>>) =>
            (tasks' = <<>> /\ ~last'.seeded)]_vars

\* a load that found no usable record has seeded the template and written it
C9_Witness ==
  /\ last.op = "load"
  /\ last.seeded
  /\ seedCount = 1
  /\ IsTemplateFor(tasks, formatDateInput(clock))
  /\ storage = Record(tasks)

\* C9 as claimed: the store is seeded whenever it is empty after the load, a
\* stored empty collection included
C9_SeededWheneverEmpty ==
  [][(/\ last'.op = "load"
      /\ \/ storage.kind \in {"none", "corrupt"}
         \/ (storage.kind = "json" /\ storage.data = <<>>)) =>
       IsTemplateFor(tasks', formatDateInput(clock'))]_vars

\* C10: once the latch is set no step of the process inserts the template, so
\* a process seeds at most once
C10_SeedsAtMostOnce ==
  [][/\ hasInitialisedTemplate => ~last'.seeded
     /\ seedCount' <= 1]_vars

\* the user has removed every task of a seeded store and the store stays empty
C10_Witness ==
  /\ isHydrated
  /\ last.op = "remove"
  /\ tasks = <<>>
  /\ seedCount = 1
  /\ hasInitialisedTemplate

\* the alerts of a list, by id
AlertIds(as) == {as[i].id : i \in 1..Len(as)}

\* as2 is as1 with the element at position k taken out
Without(as1, k, as2) ==
  /\ Len(as2) = Len(as1) - 1
  /\ \A i \in 1..Len(as2) : as2[i] = as1[IF i < k THEN i ELSE i + 1]

\* C11: create, update, setCompleted, remove and bulkReplaceForDate leave the
\* alert list as it is; within a process an alert enters the list only in a
\* tick and leaves it only in an acknowledge; acknowledge takes out exactly the
\* alert with the given id, nothing when there is none, and changes no task
C11_AlertLifecycle ==
  [][/\ last'.op \in {"create", "update", "setCompleted", "remove", "bulkReplace"} =>
          alerts' = alerts
     /\ NewAlerts(alerts, alerts') # {} => last'.op = "tick"
     /\ (NewAlerts(alerts', alerts) # {} /\ last'.op \notin {"restart", "writeFailed"}) =>
          last'.op = "acknowledge"
     /\ last'.op = "acknowledge" =>
          /\ tasks' = tasks
          /\ last'.id \notin AlertIds(alerts) => alerts' = alerts
          /\ \A k \in 1..Len(alerts) :
               alerts[k].id = last'.id => Without(alerts, k, alerts')]_vars

\* an acknowledge has taken one alert out of the list while the alert of a
\* removed task stays in it
C11_Witness ==
  /\ last.op = "acknowledge"
  /\ last.id # UnknownId
  /\ last.id \notin AlertIds(alerts)
  /\ Len(alerts) >= 2
  /\ \E i \in 1..Len(alerts) : alerts[i].taskId \notin TaskIds(tasks)

\* C12: for a task that stays in the store, notified turns from false to true
\* only in a tick and from true to false only in an update of that task that
\* supplies date or time; an update that carries notified without date or time
\* leaves the flag as it was
C12_NotifiedEngineControlled ==
  [][\A i \in 1..Len(BeforeStep) :
       LET old == BeforeStep[i]
       IN old.id \in TaskIds(tasks') =>
            LET new == TaskById(tasks', old.id)
                thisUpdate == last'.op = "update" /\ last'.id = old.id
                movesInstant == Supplied(last'.u, "date") \/ Supplied(last'.u, "time")
            IN /\ (~old.notified /\ new.notified) => last'.op = "tick"
               /\ (old.notified /\ ~new.notified) => (thisUpdate /\ movesInstant)
               /\ (thisUpdate /\ Supplied(last'.u, "notified") /\ ~movesInstant) =>
                    new.notified = old.notified]_vars

\* an update that carried notified = true and neither date nor time has left
\* an unnotified task unnotified
C12_Witness ==
  /\ last.op = "update"
  /\ last.u = [notified |-> TRUE]
  /\ last.id \in TaskIds(tasks)
  /\ ~TaskById(tasks, last.id).notified

\* the tasks of a collection that fall on date, in collection order
OnDate(ts, date) == SelectSeq(ts, LAMBDA task : task.date = date)

\* C13: bulkReplaceForDate(d, template) leaves, on date d, exactly the five
\* template tasks, Pending and with ids no task had before, and keeps every
\* task of another date with all its fields, adding none on another date
C13_BulkReplaceIsDestructive ==
  [][last'.op = "bulkReplace" =>
       LET d == last'.u.date
       IN /\ IsTemplateFor(OnDate(tasks', d), d)
          /\ TaskIds(OnDate(tasks', d)) \cap TaskIds(tasks) = {}
          /\ {t \in Range(tasks') : t.date # d} = {t \in Range(tasks) : t.date # d}
          /\ Len(tasks') = Len(tasks) - Len(OnDate(tasks, d)) + TemplateSize]_vars

\* a replace for a date has removed the two stored tasks of that date, kept the
\* stored task of the next day and inserted the template
C13_Witness ==
  /\ last.op = "bulkReplace"
  /\ Len(tasks) = TemplateSize + 1
  /\ IsTemplateFor(OnDate(tasks, last.u.date), last.u.date)
  /\ \E i \in 1..Len(tasks) : tasks[i] = StoredSample[3]
  /\ \A i \in 1..Len(tasks) : tasks[i].id \notin {StoredSample[1].id, StoredSample[2].id}

\* C14: once the page is hydrated the stored record is the snapshot of the
\* in-memory collection, the same tasks with the same fields in the same order
C14_RecordEqualsMemory ==
  isHydrated => (storage.kind = "json" /\ Parse(storage.data) = tasks)

\* an update has changed one field of one task, the number of tasks is as it
\* was, and the record holds the changed task
C14_Witness ==
  /\ isHydrated
  /\ last.op = "update"
  /\ last.u = [description |-> "edited"]
  /\ \E i \in 1..Len(tasks) :
       /\ tasks[i].id = last.id
       /\ tasks[i].description = "edited"
       /\ Parse(storage.data)[i] = tasks[i]

\* C15: when the page is closed with a non-empty collection and opened
\* again, the load yields the collection the process held before: the same
\* tasks, each with the same id and fields, in the same order
C15_RoundTrip ==
  [][(last.op = "restart" /\ last.before # <<>> /\ last'.op = "load") =>
       tasks' = last.before]_vars

\* the page was closed after a tick had fired seeded tasks, and the load has
\* brought back the five tasks with their notified flags
C15_Witness ==
  /\ last.op = "load"
  /\ ~last.seeded
  /\ budget >= 1
  /\ Len(tasks) = TemplateSize
  /\ \E i, j \in 1..Len(tasks) : tasks[i].notified /\ ~tasks[j].notified

\* C16: closing the page empties the alert list and the load leaves it empty,
\* the load brings every task back with the notified flag it had, and a task
\* loaded with notified = true has no alert in any later state of the process
\* as long as no update has supplied a date or a time for it
C16_RestartClearsAlerts ==
  [][/\ last'.op \in {"restart", "load"} => alerts' = <<>>
     /\ (last.op = "restart" /\ last'.op = "load") =>
          \A i \in 1..Len(last.before) :
            /\ last.before[i].id \in TaskIds(tasks')
            /\ TaskById(tasks', last.before[i].id).notified = last.before[i].notified
     /\ \A id \in last'.loaded : CountAlerts(alerts', id) = 0]_vars

\* a seeded task has fired, the page was closed and opened again, and a tick
\* past the task's trigger instant has left it without an alert
C16_Witness ==
  /\ last.op = "tick"
  /\ budget >= 1
  /\ \E id \in last.loaded \cap TaskIds(tasks) :
       /\ TaskById(tasks, id).notified
       /\ ~TaskById(tasks, id).completed
       /\ id \notin TaskIds(StoredSample)
       /\ clock >= TriggerTime(TaskById(tasks, id))
       /\ CountAlerts(alerts, id) = 0

\* C17: a load that finds a record JSON.parse rejects completes hydration,
\* takes the record out of storage and starts from the empty collection: what
\* memory and storage hold afterwards is what a load without a record leaves,
\* the template for the current date under fresh ids, and no task of the
\* rejected record
C17_CorruptRecordDiscarded ==
  [][(last'.op = "load" /\ storage.kind = "corrupt") =>
       /\ isHydrated'
       /\ last'.removed
       /\ storage'.kind = "json"
       /\ tasks' = ensureTemplate(<<>>, FALSE, formatDateInput(clock'), nextId)
       /\ Parse(storage'.data) = tasks'
       /\ \A t \in Range(Parse(storage.data)) : t \notin Range(tasks')]_vars

\* a load has met a rejected record that still shows a task, has removed the
\* record and left the seeded template in memory and in storage
C17_Witness ==
  /\ last.op = "load"
  /\ last.removed
  /\ isHydrated
  /\ IsTemplateFor(tasks, formatDateInput(clock))
  /\ storage = Record(tasks)
  /\ \A i \in 1..Len(tasks) : tasks[i].title # "Walk"

\* C18: whatever audio playback does, a tick fires every task that qualifies:
\* the task is notified afterwards and its alert is in the list, a new one
\* unless one was live; a chime that throws leaves what a chime that plays
\* leaves
C18_ChimeNeverBlocks ==
  [][last'.op = "tick" =>
       /\ \A i \in 1..Len(tasks) :
            Qualifies(tasks[i], clock') =>
              /\ tasks[i].id \in last'.fired
              /\ last'.u.chime \in ChimeOutcomes
              /\ TaskById(tasks', tasks[i].id).notified
              /\ CountAlerts(alerts', tasks[i].id) = 1
              /\ CountAlerts(alerts, tasks[i].id) = 0 =>
                   \E a \in NewAlerts(alerts, alerts') : a.taskId = tasks[i].id
       /\ tasks' = TickTasks(tasks, clock')
       /\ alerts' = TickAlerts(alerts, tasks, clock', nextAlertId - Len(alerts))]_vars

\* a tick whose chime threw has fired tasks: each is notified and has its alert
C18_Witness ==
  /\ last.op = "tick"
  /\ last.fired # {}
  /\ last.u.chime = "throws"
  /\ \A id \in last.fired :
       TaskById(tasks, id).notified /\ CountAlerts(alerts, id) = 1

\* C19: update, remove and setCompleted with an id no task has complete and
\* leave the tasks (members, fields, order), the alert list and the record as
\* they are
C19_UnknownIdIsNoOp ==
  [][(/\ last'.op \in {"update", "remove", "setCompleted"}
      /\ last'.id \notin TaskIds(tasks)) =>
       /\ tasks' = tasks
       /\ alerts' = alerts
       /\ storage' = storage
       /\ isHydrated']_vars

\* a remove that named an unknown id has run over a store that holds tasks,
\* one of them notified, and a live alert
C19_Witness ==
  /\ last.op = "remove"
  /\ last.id = UnknownId
  /\ Len(alerts) >= 1
  /\ Len(tasks) >= 2
  /\ \E i \in 1..Len(tasks) : tasks[i].notified

\* C20: setCompleted(id, b), for b true and b false, leaves every task in its
\* place, sets the completed field of the task with that id to b and changes
\* no other field of it, notified included, and no other task
C20_SetCompletedFrame ==
  [][last'.op = "setCompleted" =>
       /\ Len(tasks') = Len(tasks)
       /\ \A i \in 1..Len(tasks) :
            IF tasks[i].id = last'.id
            THEN /\ tasks'[i].completed = last'.u.completed
                 /\ \A f \in DOMAIN tasks[i] \ {"completed"} : tasks'[i][f] = tasks[i][f]
            ELSE tasks'[i] = tasks[i]]_vars

\* a notified task has been marked completed and is still notified, its alert
\* still live
C20_Witness ==
  /\ last.op = "setCompleted"
  /\ last.u.completed
  /\ \E i \in 1..Len(tasks) :
       /\ tasks[i].id = last.id
       /\ tasks[i].completed
       /\ tasks[i].notified
       /\ CountAlerts(alerts, tasks[i].id) = 1

\* C21: a tick in which no task qualifies leaves the tasks, their order and
\* the stored record as they are and runs no write; a tick runs a write only
\* when a task qualified
C21_IdleTickWritesNothing ==
  [][last'.op = "tick" =>
       LET qualified == \E i \in 1..Len(tasks) : Qualifies(tasks[i], clock')
       IN /\ ~qualified =>
               (tasks' = tasks /\ storage' = storage /\ ~last'.wrote)
          /\ last'.wrote => qualified]_vars

\* a tick has run over a store with a task not yet due and a task already
\* notified, has fired nothing and has written nothing
C21_Witness ==
  /\ last.op = "tick"
  /\ ~last.wrote
  /\ last.fired = {}
  /\ storage = Record(tasks)
  /\ \E i, j \in 1..Len(tasks) :
       /\ Pending(tasks[i]) /\ clock < TriggerTime(tasks[i])
       /\ tasks[j].notified /\ ~tasks[j].completed

\* C22: an update that supplies remindBefore and neither date nor time gives
\* the task the new lead time and leaves notified = true as it is, whatever
\* notified value the caller passed; a tick fires no task that is notified,
\* so the task is not fired for its new trigger instant
C22_LeadTimeKeepsNotified ==
  [][/\ (/\ last'.op = "update"
         /\ Supplied(last'.u, "remindBefore")
         /\ ~Supplied(last'.u, "date")
         /\ ~Supplied(last'.u, "time")) =>
          \A i \in 1..Len(tasks) :
            (tasks[i].id = last'.id /\ tasks[i].notified) =>
              /\ TaskById(tasks', last'.id).notified
              /\ TaskById(tasks', last'.id).remindBefore = last'.u.remindBefore
     /\ last'.op = "tick" =>
          \A i \in 1..Len(tasks) :
            tasks[i].notified =>
              /\ tasks[i].id \notin last'.fired
              /\ \A a \in NewAlerts(alerts, alerts') : a.taskId # tasks[i].id]_vars

\* the first template task has fired, its lead time was then changed with
\* notified = false passed along, and a later tick that fired other tasks has
\* passed its new trigger instant without firing it
C22_Witness ==
  /\ last.op = "tick"
  /\ last.fired # {}
  /\ budget = 1
  /\ \E i \in 1..Len(tasks) :
       /\ tasks[i].title = templateBlueprint[1].title
       /\ tasks[i].remindBefore # templateBlueprint[1].remindBefore
       /\ tasks[i].notified
       /\ tasks[i].id \notin last.fired
       /\ clock >= TriggerTime(tasks[i])
       /\ CountAlerts(alerts, tasks[i].id) = 1

\* C23 as claimed: a write that throws leaves the tasks the mutation produced
\* and the alert list in memory and the page hydrated, so that later
\* mutations, ticks and writes go on from them
C23_FailedWriteKeepsMemory ==
  [][last'.op = "writeFailed" =>
       /\ tasks' = last'.before
       /\ alerts' = alerts
       /\ isHydrated']_vars

\* C24: whatever the notification permission is, and when the capability is
\* absent, a tick fires every task that qualifies: the task is notified, its
\* alert is in the list and a chime is requested for it; OS notifications are
\* requested only under a granted permission, then one for each task fired
C24_PermissionNeverBlocks ==
  [][last'.op = "tick" =>
       /\ \A i \in 1..Len(tasks) :
            Qualifies(tasks[i], clock') =>
              /\ tasks[i].id \in last'.fired
              /\ last'.u.permission \in Permissions
              /\ TaskById(tasks', tasks[i].id).notified
              /\ CountAlerts(alerts', tasks[i].id) = 1
              /\ last'.u.requested.chime >= 1
       /\ last'.fired # {} =>
            /\ last'.u.requested.chime = Cardinality(last'.fired)
            /\ last'.u.requested.os =
                 (IF last'.u.permission = "granted" THEN Cardinality(last'.fired) ELSE 0)]_vars

\* a tick under a denied permission has fired tasks: each is notified and has
\* its alert, chimes were requested and no OS notification
C24_Witness ==
  /\ last.op = "tick"
  /\ last.fired # {}
  /\ last.u.permission = "denied"
  /\ last.u.requested = [os |-> 0, chime |-> Cardinality(last.fired)]
  /\ \A id \in last.fired :
       TaskById(tasks, id).notified /\ CountAlerts(alerts, id) = 1

\* the tasks a step moves from Pending to Alerted
Transitions(before, after) ==
  {before[i].id : i \in {j \in 1..Len(before) :
      /\ Pending(before[j])
      /\ before[j].id \in TaskIds(after)
      /\ TaskById(after, before[j].id).notified}}

\* C25: a tick requests as many chimes as it moves tasks from Pending to
\* Alerted, one for each, also for a task whose alert is not inserted because
\* an alert with its taskId is live; a tick that moves none requests none
C25_OneChimePerTransition ==
  [][last'.op = "tick" =>
       IF Transitions(tasks, tasks') = {}
       THEN last'.fired = {} /\ ~Supplied(last'.u, "requested")
       ELSE /\ last'.fired = Transitions(tasks, tasks')
            /\ last'.u.requested.chime = Cardinality(Transitions(tasks, tasks'))]_vars

\* a tick has fired a re-armed task whose earlier alert was live: the alert it
\* has is the earlier one, and the chime was requested once for each task fired
C25_Witness ==
  /\ last.op = "tick"
  /\ last.fired # {}
  /\ last.u.requested.chime = Cardinality(last.fired)
  /\ \E id \in last.fired :
       /\ CountAlerts(alerts, id) = 1
       /\ \A i \in AlertsFor(alerts, id) :
            alerts[i].scheduledAt # Instant(TaskById(tasks, id))

\* C26: before hydration completes the only step is the load, which completes
\* it: no tick runs and nothing is written while isHydrated is false; the write
\* that follows the load of a non-empty record stores the loaded tasks, so the
\* record never gives way to the empty collection the page starts with
C26_NothingBeforeHydration ==
  [][/\ ~isHydrated => (last'.op = "load" /\ isHydrated')
     /\ last'.op = "tick" => isHydrated
     /\ last'.wrote => isHydrated'
     /\ (last'.op = "load" /\ storage.kind = "json" /\ storage.data # <<>>) =>
          /\ last'.wrote
          /\ tasks' = sortTasks(Parse(storage.data))
          /\ storage'.kind = "json"
          /\ Parse(storage'.data) = tasks'
          /\ storage'.data # <<>>]_vars

\* the load of the stored sample has completed hydration and written the three
\* loaded tasks back
C26_Witness ==
  /\ last.op = "load"
  /\ last.wrote
  /\ ~last.seeded
  /\ isHydrated
  /\ tasks = StoredSample
  /\ storage = Record(StoredSample)

====
